---- MODULE Spec2Model ----
EXTENDS Integers, Sequences, FiniteSets, TLC

(***************************************************************************)
(* Location acquisition and history engine: the useGeolocation hook, the   *)
(* GeolocationService it owns, the LocationTracker component that keeps    *)
(* the history, and the platform (geolocation source, localStorage, the    *)
(* React scheduler) they run on.                                           *)
(***************************************************************************)

VARIABLES
    phase,              \* "init" | "mounted" | "crashed"
    isSupported,        \* state.isSupported ('geolocation' in navigator)
    autoStart,          \* LocationTracker prop autoStart (options.watchPosition)
    st,                 \* hook state after every queued updateState
    renderedRef,        \* identity of state.location as of the last render
    dirty,              \* a state update is queued: a render is pending
    isWatching,         \* isWatching.current
    watchId,            \* GeolocationService.watchId (0 = null)
    lastKnownPosition,  \* GeolocationService.lastKnownPosition
    liveWatches,        \* platform: watch ids registered and not cleared
    inFlight,           \* platform: queued watch callbacks <<[id, coords]>>
    pendingOnce,        \* platform: one-shot requests not yet answered
    pendingPerm,        \* a checkPermission() call is awaiting its result
    fixes,              \* number of position readings produced so far
    locationHistory,    \* LocationTracker state, as of the last render
    histQueue,          \* queued setLocationHistory updates
    storage,            \* the 'locationHistory' slot of localStorage
    cbChanged,          \* onLocationUpdate changed identity since then
    cbChanges,          \* number of identity changes so far
    notified,           \* onLocationUpdate invocations, in order
    delivered,          \* the samples handed to the hook's callbacks, in order
    lastOp,             \* the operation that made the last step
    call                \* a MapUtils call: function, arguments, return value

vars == <<phase, isSupported, autoStart, st, renderedRef, dirty, isWatching, watchId,
          lastKnownPosition, liveWatches, inFlight, pendingOnce, pendingPerm,
          fixes, locationHistory, histQueue, storage, cbChanged,
          cbChanges, notified, delivered, lastOp, call>>

----------------------------------------------------------------------------
(* Bounds of the model *)

MaxFixes == 2         \* position readings the platform produces
MaxInFlight == 1      \* queued watch callbacks
MaxPending == 1       \* one-shot requests awaiting an answer
MaxCbChanges == 1     \* identity changes of onLocationUpdate
MaxStream == 103      \* readings of the long stream (SpecStream)
MaxCalls == 3         \* readings answered to the one-at-a-time caller (SpecCalls)
MaxWatches == 3       \* watches registered at the platform (SpecService)

----------------------------------------------------------------------------
(* Values *)

\* slice(-100): the window the history and the slot are cut to
HistoryCap == 100

\* JavaScript NaN: a number that fails every comparison
NaN == 9999

isNaN(x) == x = NaN

\* error: null
NoError == -1

\* location: null
NoLocation == [ref |-> 0, timestamp |-> 0, latitude |-> 0, longitude |-> 0]

\* GeolocationPositionError codes, and 0 for "not supported"
ErrorCodes == {1, 3}

\* the coordinates the platform may report: a valid pair, and a pair whose
\* latitude is out of range
ValidCoords == <<37, -122>>

Coords == {ValidCoords, <<95, -122>>}

\* the LocationData object built from a GeolocationPosition; `ref` is the
\* identity of the new object, the reading's number
LocationData(n, c) ==
    [ref |-> n, timestamp |-> n, latitude |-> c[1], longitude |-> c[2]]

\* isValidCoordinate with `latitude < 90`
isValidCoordinate_OpenUpper(latitude, longitude) ==
    /\ ~isNaN(latitude)
    /\ ~isNaN(longitude)
    /\ latitude >= -90
    /\ latitude < 90
    /\ longitude >= -180
    /\ longitude <= 180

\* MapUtils.isValidCoordinate
isValidCoordinate(latitude, longitude) ==
    /\ ~isNaN(latitude)
    /\ ~isNaN(longitude)
    /\ latitude >= -90
    /\ latitude <= 90
    /\ longitude >= -180
    /\ longitude <= 180

\* Array.prototype.slice(-n)
SliceLast(s, n) ==
    IF Len(s) <= n THEN s ELSE SubSeq(s, Len(s) - n + 1, Len(s))

\* JSON null
JsonNull == -9999

\* JSON.stringify of a number: NaN is written as null
JsonNumber(x) == IF isNaN(x) THEN JsonNull ELSE x

\* JSON.stringify then JSON.parse of one LocationData: a new object with the
\* same fields (ref -1: not an object the platform delivered)
JsonCopy(l) ==
    [ref |-> -1, timestamp |-> l.timestamp,
     latitude |-> JsonNumber(l.latitude), longitude |-> JsonNumber(l.longitude)]

\* the slot: getItem returns null, the text is not JSON, or it is the JSON
\* text of an array
Absent == [kind |-> "absent", items |-> <<>>]
Malformed == [kind |-> "malformed", items |-> <<>>]
Stored(items) == [kind |-> "array", items |-> items]

\* the slot as a previous session (or anything else) left it: k readings
StoredBefore(k) ==
    Stored([i \in 1..k |-> JsonCopy(LocationData(i - k - 1, ValidCoords))])

\* the lengths of the slot's array at session start
InitStoredLens == {HistoryCap - 1, HistoryCap + 1}

InitState ==
    [location |-> NoLocation, error |-> NoError, loading |-> FALSE,
     permission |-> "null"]

----------------------------------------------------------------------------
(* The hook and the service, as functions of the engine's mutable parts *)

Eng ==
    [st |-> st, dirty |-> dirty, isWatching |-> isWatching,
     watchId |-> watchId, liveWatches |-> liveWatches]

\* setState(prev => ({...prev, ...updates}))
updateState(e, updates) ==
    [e EXCEPT !.st = [f \in DOMAIN e.st |->
                        IF f \in DOMAIN updates THEN updates[f] ELSE e.st[f]],
              !.dirty = TRUE]

\* navigator.geolocation.watchPosition: a watch id not in use
NewWatchId(e) ==
    LET used == e.liveWatches \cup {inFlight[i].id : i \in DOMAIN inFlight}
    IN  CHOOSE i \in 1..(Cardinality(used) + 1) :
            /\ i \notin used
            /\ \A j \in 1..(i - 1) : j \in used

\* GeolocationService.startWatching
svcStartWatching(e) ==
    IF ~isSupported
    THEN updateState(e, [error |-> 0, loading |-> FALSE])
    ELSE LET id == NewWatchId(e)
         IN  [e EXCEPT !.watchId = id, !.liveWatches = @ \cup {id}]

\* GeolocationService.stopWatching
svcStopWatching(e) ==
    IF e.watchId # 0
    THEN [e EXCEPT !.liveWatches = @ \ {e.watchId}, !.watchId = 0]
    ELSE e

\* startWatching without the isWatching.current check
hookStartWatching_NoGuard(e) ==
    IF ~isSupported
    THEN e
    ELSE LET e1 == updateState(e, [loading |-> TRUE, error |-> NoError])
             e2 == svcStartWatching(e1)
         IN  [e2 EXCEPT !.isWatching = TRUE]

\* useGeolocation.startWatching
hookStartWatching(e) ==
    IF ~isSupported \/ e.isWatching
    THEN e
    ELSE LET e1 == updateState(e, [loading |-> TRUE, error |-> NoError])
             e2 == svcStartWatching(e1)
         IN  [e2 EXCEPT !.isWatching = TRUE]

\* stopWatching that stops the service's watch and leaves the flag set
hookStopWatching_KeepsFlag(e) ==
    IF e.isWatching
    THEN updateState(svcStopWatching(e), [loading |-> FALSE])
    ELSE e

\* stopWatching that clears the flag and leaves the service's watch open
hookStopWatching_KeepsWatch(e) ==
    IF e.isWatching
    THEN LET e2 == [e EXCEPT !.isWatching = FALSE]
         IN  updateState(e2, [loading |-> FALSE])
    ELSE e

\* useGeolocation.stopWatching
hookStopWatching(e) ==
    IF e.isWatching
    THEN LET e1 == svcStopWatching(e)
             e2 == [e1 EXCEPT !.isWatching = FALSE]
         IN  updateState(e2, [loading |-> FALSE])
    ELSE e

\* the variables an engine record stands for
SetEng(e) ==
    /\ st' = e.st
    /\ dirty' = e.dirty
    /\ isWatching' = e.isWatching
    /\ watchId' = e.watchId
    /\ liveWatches' = e.liveWatches

----------------------------------------------------------------------------
(* LocationTracker: the history, the slot, the subscriber *)

\* the updater cutting with slice(0, 100): the newest sample is the one lost
AppendHistory_KeepOldest(prev, location) ==
    SubSeq(Append(prev, location), 1,
           IF Len(prev) + 1 <= HistoryCap THEN Len(prev) + 1 ELSE HistoryCap)

\* the updater of the append effect: [...prev, location].slice(-100)
AppendHistory(prev, location) == SliceLast(Append(prev, location), HistoryCap)

\* queued setLocationHistory calls
QAppend(location) == [kind |-> "append", location |-> location, items |-> <<>>]
QSet(items) == [kind |-> "set", location |-> NoLocation, items |-> items]

\* React applies the queued updates in order at the next render
RECURSIVE ApplyQueue(_, _)
ApplyQueue(prev, q) ==
    IF q = <<>> THEN prev
    ELSE ApplyQueue(IF Head(q).kind = "append"
                    THEN AppendHistory(prev, Head(q).location)
                    ELSE Head(q).items,
                    Tail(q))

\* JSON.parse(localStorage.getItem('locationHistory') || '[]')
ParseSaved(slot) == IF slot.kind = "array" THEN slot.items ELSE <<>>

\* JSON.stringify([...savedLocations, location].slice(-100))
SaveLocation(slot, location) ==
    Stored(SliceLast(Append(ParseSaved(slot), JsonCopy(location)), HistoryCap))

\* the dependencies [location, onLocationUpdate] of the append effect changed
AppendDepsChanged == st.location.ref # renderedRef \/ cbChanged

\* the append effect reaches onLocationUpdate?.(location): what the
\* subscriber is called with, and whether the history the component holds
\* at that moment ends with that sample
Notification(location, history) ==
    [ref |-> location.ref,
     inHistory |-> history # <<>> /\ history[Len(history)].ref = location.ref]

\* the cleanups React runs when the component goes away: the auto-start
\* effect's, then the unmount effect's
UnmountCleanups(e) ==
    LET e1 == IF e.isWatching THEN hookStopWatching(e) ELSE e
    IN  IF e1.isWatching THEN svcStopWatching(e1) ELSE e1

----------------------------------------------------------------------------
(* Initial state: before the first render *)

InitCalling(supported, auto, slots, calls) ==
    /\ phase = "init"
    /\ isSupported \in supported
    /\ autoStart \in auto
    /\ st = InitState
    /\ renderedRef = NoLocation.ref
    /\ dirty = FALSE
    /\ isWatching = FALSE
    /\ watchId = 0
    /\ lastKnownPosition = NoLocation
    /\ liveWatches = {}
    /\ inFlight = <<>>
    /\ pendingOnce = 0
    /\ pendingPerm = FALSE
    /\ fixes = 0
    /\ locationHistory = <<>>
    /\ histQueue = <<>>
    /\ storage \in slots
    /\ cbChanged = FALSE
    /\ cbChanges = 0
    /\ notified = <<>>
    /\ delivered = <<>>
    /\ lastOp = "none"
    /\ call \in calls

\* no MapUtils call is under way
NoCall == [fn |-> "none", args |-> <<>>, done |-> FALSE, result |-> FALSE]

InitWith(supported, auto, slots) ==
    InitCalling(supported, auto, slots, {NoCall})

\* a first session: nothing was ever saved
Init == InitWith(BOOLEAN, BOOLEAN, {Absent})

\* a later session: the slot holds what an earlier session saved, or what
\* something else wrote under the same key
InitResume ==
    InitWith({TRUE}, {FALSE},
             {Malformed} \cup {StoredBefore(k) : k \in InitStoredLens})

\* hydrate that hands the stored text to setLocationHistory when it does not
\* parse: the history is then a value with one character per position, none
\* of them a sample
HydrateQueue_KeepsText(slot) ==
    IF slot.kind = "array" THEN <<QSet(slot.items)>>
    ELSE IF slot.kind = "malformed"
    THEN <<QSet(<<[ref |-> -1, timestamp |-> JsonNull,
                   latitude |-> JsonNull, longitude |-> JsonNull]>>)>>
    ELSE <<>>

\* the hydrate effect: the slot's array replaces the history
HydrateQueue(slot) ==
    IF slot.kind = "array" THEN <<QSet(slot.items)>> ELSE <<>>

\* First render and its effects: checkPermission() is called, the auto-start
\* effect sees permission null, the append effect sees location null, the
\* hydrate effect reads the slot.
Mount ==
    /\ phase = "init"
    /\ phase' = "mounted"
    /\ pendingPerm' = TRUE
    /\ histQueue' = HydrateQueue(storage)
    /\ dirty' = (HydrateQueue(storage) # <<>>)
    /\ lastOp' = "mount"
    /\ UNCHANGED <<isSupported, autoStart, st, renderedRef, isWatching, watchId,
                   lastKnownPosition, liveWatches, inFlight, pendingOnce,
                   fixes, locationHistory, storage, cbChanged, cbChanges,
                   notified, delivered, call>>

\* A render commits the queued updates and runs the effects whose
\* dependencies changed: the auto-start effect (its dependency startWatching
\* is a new function on every render, because `options` is a new object on
\* every render) - cleanup first, then body - and the append effect.
\* writeOk: localStorage.setItem returns, or throws (quota, disabled storage).
Render(writeOk) ==
    /\ phase = "mounted"
    /\ dirty
    /\ LET history == ApplyQueue(locationHistory, histQueue)
           e0 == [Eng EXCEPT !.dirty = FALSE]
           e1 == IF e0.isWatching THEN hookStopWatching(e0) ELSE e0
           e2 == IF autoStart /\ st.permission = "granted"
                 THEN hookStartWatching(e1) ELSE e1
           runs == AppendDepsChanged /\ st.location # NoLocation
           throws == runs /\ (storage.kind = "malformed" \/ ~writeOk)
           e3 == IF runs THEN [e2 EXCEPT !.dirty = TRUE] ELSE e2
       IN  /\ renderedRef' = st.location.ref
           /\ locationHistory' = history
           /\ histQueue' = IF runs THEN <<QAppend(st.location)>> ELSE <<>>
           /\ cbChanged' = FALSE
           /\ IF throws
              THEN /\ phase' = "crashed"
                   /\ SetEng(UnmountCleanups(e3))
                   /\ UNCHANGED <<storage, notified>>
              ELSE /\ phase' = "mounted"
                   /\ SetEng(e3)
                   /\ storage' = IF runs THEN SaveLocation(storage, st.location)
                                 ELSE storage
                   /\ notified' = IF runs
                                  THEN Append(notified, Notification(st.location, history))
                                  ELSE notified
    /\ lastOp' = "render"
    /\ UNCHANGED <<isSupported, autoStart, lastKnownPosition, inFlight,
                   pendingOnce, pendingPerm, fixes, cbChanges, delivered,
                   call>>

----------------------------------------------------------------------------
(* Operations of the engine surface *)

Frame ==
    UNCHANGED <<phase, isSupported, autoStart, renderedRef, locationHistory,
                histQueue, storage, cbChanged, cbChanges, notified, call>>

\* useGeolocation.getCurrentPosition up to its await: the request is issued
hookGetCurrentPosition(e) ==
    IF ~isSupported
    THEN updateState(e, [error |-> 0])
    ELSE updateState(e, [loading |-> TRUE, error |-> NoError])

\* the one-shot requests the call leaves pending at the platform
IssuedOnce(n) == IF ~isSupported THEN n ELSE n + 1

GetCurrentPosition ==
    /\ phase = "mounted"
    /\ pendingOnce < MaxPending
    /\ SetEng(hookGetCurrentPosition(Eng))
    /\ pendingOnce' = IssuedOnce(pendingOnce)
    /\ lastOp' = "getCurrentPosition"
    /\ UNCHANGED <<lastKnownPosition, inFlight, pendingPerm, fixes, delivered>>
    /\ Frame

\* the success callback of navigator.geolocation.getCurrentPosition, then
\* the continuation of the hook's await
onceSuccess(e, location) ==
    updateState(e, [location |-> location, loading |-> FALSE])

OnceResolve(c, max) ==
    /\ phase = "mounted"
    /\ pendingOnce > 0
    /\ fixes < max
    /\ fixes' = fixes + 1
    /\ pendingOnce' = pendingOnce - 1
    /\ SetEng(onceSuccess(Eng, LocationData(fixes + 1, c)))
    /\ delivered' = Append(delivered, LocationData(fixes + 1, c))
    /\ lastOp' = "onceResolve"
    /\ UNCHANGED <<lastKnownPosition, inFlight, pendingPerm>>
    /\ Frame

\* the hook's catch storing the error and leaving loading set
onceFailure_KeepsLoading(e, code) == updateState(e, [error |-> code])

\* the error callback of the one-shot request, then the hook's catch
onceFailure(e, code) == updateState(e, [error |-> code, loading |-> FALSE])

OnceFail(code) ==
    /\ phase = "mounted"
    /\ pendingOnce > 0
    /\ pendingOnce' = pendingOnce - 1
    /\ SetEng(onceFailure(Eng, code))
    /\ lastOp' = "onceFail"
    /\ UNCHANGED <<lastKnownPosition, inFlight, pendingPerm, fixes, delivered>>
    /\ Frame

StartWatching ==
    /\ phase = "mounted"
    /\ SetEng(hookStartWatching(Eng))
    /\ lastOp' = "startWatching"
    /\ UNCHANGED <<lastKnownPosition, inFlight, pendingOnce, pendingPerm, fixes, delivered>>
    /\ Frame

StopWatching ==
    /\ phase = "mounted"
    /\ SetEng(hookStopWatching(Eng))
    /\ lastOp' = "stopWatching"
    /\ UNCHANGED <<lastKnownPosition, inFlight, pendingOnce, pendingPerm, fixes, delivered>>
    /\ Frame

\* useGeolocation.clearError
\* clearError that also resets the loading flag
hookClearError_ResetsLoading(e) ==
    updateState(e, [error |-> NoError, loading |-> FALSE])

hookClearError(e) == updateState(e, [error |-> NoError])

ClearError ==
    /\ phase = "mounted"
    /\ SetEng(hookClearError(Eng))
    /\ lastOp' = "clearError"
    /\ UNCHANGED <<lastKnownPosition, inFlight, pendingOnce, pendingPerm, fixes, delivered>>
    /\ Frame

\* GeolocationService.checkPermission resolves ('prompt' when the status
\* cannot be queried) and the hook stores it
PermissionResult(p) ==
    /\ phase = "mounted"
    /\ pendingPerm
    /\ pendingPerm' = FALSE
    /\ SetEng(updateState(Eng, [permission |-> p]))
    /\ lastOp' = "permissionResult"
    /\ UNCHANGED <<lastKnownPosition, inFlight, pendingOnce, fixes, delivered>>
    /\ Frame

----------------------------------------------------------------------------
(* The platform's watch *)

\* The platform acquires a reading for a registered watch and queues the
\* task that will invoke the watch's success callback.
PositionFix(id, c, max) ==
    /\ phase = "mounted"
    /\ id \in liveWatches
    /\ Len(inFlight) < MaxInFlight
    /\ fixes < max
    /\ fixes' = fixes + 1
    /\ inFlight' = Append(inFlight, [id |-> id, n |-> fixes + 1, coords |-> c])
    /\ lastOp' = "positionFix"
    /\ UNCHANGED <<st, dirty, isWatching, watchId, liveWatches,
                   lastKnownPosition, pendingOnce, pendingPerm, delivered>>
    /\ Frame

\* the hook's onLocationUpdate passed to the service
watchSuccess(e, location) ==
    updateState(e, [location |-> location, loading |-> FALSE])

\* The queued task runs: the watch's success callback is invoked, whether or
\* not clearWatch was called for its watch id since the task was queued.
WatchDeliver ==
    /\ phase = "mounted"
    /\ inFlight # <<>>
    /\ LET d == Head(inFlight)
           location == LocationData(d.n, d.coords)
       IN  /\ lastKnownPosition' = location
           /\ SetEng(watchSuccess(Eng, location))
           /\ delivered' = Append(delivered, location)
           /\ lastOp' = IF d.id \in liveWatches THEN "watchDeliver"
                        ELSE "lateDeliver"
    /\ inFlight' = Tail(inFlight)
    /\ UNCHANGED <<pendingOnce, pendingPerm, fixes>>
    /\ Frame

\* The platform discards the queued task of a watch that was cleared.
DropCancelled ==
    /\ phase = "mounted"
    /\ inFlight # <<>>
    /\ Head(inFlight).id \notin liveWatches
    /\ inFlight' = Tail(inFlight)
    /\ lastOp' = "dropCancelled"
    /\ UNCHANGED <<st, dirty, isWatching, watchId, liveWatches,
                   lastKnownPosition, pendingOnce, pendingPerm, fixes,
                   delivered>>
    /\ Frame

\* the hook's onError passed to the service
watchFailure(e, code) == updateState(e, [error |-> code, loading |-> FALSE])

\* the watch's error callback
WatchFail(id, code) ==
    /\ phase = "mounted"
    /\ id \in liveWatches
    /\ SetEng(watchFailure(Eng, code))
    /\ lastOp' = "watchFail"
    /\ UNCHANGED <<lastKnownPosition, inFlight, pendingOnce, pendingPerm, fixes, delivered>>
    /\ Frame

----------------------------------------------------------------------------
(* The component's surroundings *)

\* The parent renders again and passes a new function as onLocationUpdate.
ParentRerender ==
    /\ phase = "mounted"
    /\ cbChanges < MaxCbChanges
    /\ cbChanges' = cbChanges + 1
    /\ cbChanged' = TRUE
    /\ dirty' = TRUE
    /\ lastOp' = "parentRerender"
    /\ UNCHANGED <<phase, isSupported, autoStart, st, renderedRef, isWatching,
                   watchId, lastKnownPosition, liveWatches, inFlight,
                   pendingOnce, pendingPerm, fixes, locationHistory,
                   histQueue, storage, notified, delivered, call>>

Next ==
    \/ Mount
    \/ \E writeOk \in BOOLEAN : Render(writeOk)
    \/ GetCurrentPosition
    \/ \E c \in Coords : OnceResolve(c, MaxFixes)
    \/ \E code \in ErrorCodes : OnceFail(code)
    \/ StartWatching
    \/ StopWatching
    \/ ClearError
    \/ \E p \in {"prompt", "granted", "denied"} : PermissionResult(p)
    \/ \E id \in liveWatches, c \in Coords : PositionFix(id, c, MaxFixes)
    \/ WatchDeliver
    \/ DropCancelled
    \/ \E id \in liveWatches, code \in ErrorCodes : WatchFail(id, code)

Spec == Init /\ [][Next]_vars

\* a later session
SpecResume == InitResume /\ [][Next]_vars

\* the parent component renders again while the engine runs
InitParent == InitWith({TRUE}, {FALSE}, {Absent})

NextParent == Next \/ ParentRerender

SpecParent == InitParent /\ [][NextParent]_vars

\* a caller that asks for one reading after another, each request made once
\* the previous reading has been rendered: more readings than the history
\* holds
InitStream == InitWith({TRUE}, {FALSE}, {Absent})

StreamRequest ==
    /\ st.location.ref = renderedRef
    /\ pendingOnce = 0
    /\ GetCurrentPosition

NextStream ==
    \/ Mount
    \/ \E writeOk \in BOOLEAN : Render(writeOk)
    \/ \E p \in {"prompt", "granted", "denied"} : PermissionResult(p)
    \/ StreamRequest
    \/ OnceResolve(ValidCoords, MaxStream)

SpecStream == InitStream /\ [][NextStream]_vars

\* a caller that makes one request at a time, each once the previous answer
\* has been rendered, and clears errors; the source answers with a valid
\* reading or with a failure
InitCalls == InitWith(BOOLEAN, {FALSE}, {Absent})

NextCalls ==
    \/ Mount
    \/ \E writeOk \in BOOLEAN : Render(writeOk)
    \/ \E p \in {"prompt", "granted", "denied"} : PermissionResult(p)
    \/ StreamRequest
    \/ OnceResolve(ValidCoords, MaxCalls)
    \/ \E code \in ErrorCodes : OnceFail(code)
    \/ ClearError

SpecCalls == InitCalls /\ [][NextCalls]_vars

\* sessions, first or later, in which the source answers one request at a
\* time with any number for the latitude: in range, out of range or NaN
TripCoords == Coords \cup {<<NaN, -122>>}

InitTrip == InitWith({TRUE}, {FALSE}, {Absent, StoredBefore(2)})

NextTrip ==
    \/ Mount
    \/ \E writeOk \in BOOLEAN : Render(writeOk)
    \/ \E p \in {"prompt", "granted", "denied"} : PermissionResult(p)
    \/ StreamRequest
    \/ \E c \in TripCoords : OnceResolve(c, MaxCalls)

SpecTrip == InitTrip /\ [][NextTrip]_vars

\* handleGetLocation pressed while an error is shown: clearError(), then
\* getCurrentPosition()
Retry ==
    /\ phase = "mounted"
    /\ st.error # NoError
    /\ st.location.ref = renderedRef
    /\ pendingOnce = 0
    /\ SetEng(hookGetCurrentPosition(hookClearError(Eng)))
    /\ pendingOnce' = IssuedOnce(pendingOnce)
    /\ lastOp' = "retry"
    /\ UNCHANGED <<lastKnownPosition, inFlight, pendingPerm, fixes, delivered>>
    /\ Frame

\* the source answers the pending request
Answer ==
    \/ OnceResolve(ValidCoords, MaxCalls)
    \/ \E code \in ErrorCodes : OnceFail(code)

\* the one-at-a-time caller, retrying after errors. React renders whenever
\* a state update is queued, and the source answers every request (with a
\* reading, or with a failure at its timeout at the latest).
NextRecover == NextCalls \/ Retry

SpecRecover ==
    /\ InitCalls
    /\ [][NextRecover]_vars
    /\ WF_vars(\E writeOk \in BOOLEAN : Render(writeOk))
    /\ WF_vars(Answer)

----------------------------------------------------------------------------
(* MapUtils: calls of its static functions *)

\* the engine's variables: no MapUtils function reads or writes them
engineVars ==
    <<phase, isSupported, autoStart, st, renderedRef, dirty, isWatching,
      watchId, lastKnownPosition, liveWatches, inFlight, pendingOnce,
      pendingPerm, fixes, locationHistory, histQueue, storage, cbChanged,
      cbChanges, notified, delivered>>

\* a call with its arguments evaluated and its body not yet run
Calling(fn, args) ==
    [fn |-> fn, args |-> args, done |-> FALSE, result |-> FALSE]

\* the numbers isValidCoordinate is called with: the boundaries, one degree
\* to either side of each, values well inside and NaN
CheckLatitudes == {NaN, -91, -90, -89, -1, 0, 37, 89, 90, 91}

CheckLongitudes == {NaN, -181, -180, -179, -122, 0, 1, 179, 180, 181}

InitValidate ==
    InitCalling({TRUE}, {FALSE}, {Absent},
                {Calling("isValidCoordinate", <<lat, lng>>) :
                    lat \in CheckLatitudes, lng \in CheckLongitudes})

\* MapUtils.isValidCoordinate(latitude, longitude) runs and returns
CallIsValidCoordinate ==
    /\ call.fn = "isValidCoordinate"
    /\ ~call.done
    /\ call' = [call EXCEPT !.done = TRUE,
                            !.result = isValidCoordinate(call.args[1],
                                                         call.args[2])]
    /\ lastOp' = "isValidCoordinate"
    /\ UNCHANGED engineVars

NextValidate == CallIsValidCoordinate

SpecValidate == InitValidate /\ [][NextValidate]_vars

\* getOptimalZoom with `accuracy < 10` as its first test
getOptimalZoom_StrictFirst(accuracy) ==
    IF accuracy < 10 THEN 18
    ELSE IF accuracy <= 50 THEN 16
    ELSE IF accuracy <= 100 THEN 15
    ELSE IF accuracy <= 500 THEN 14
    ELSE 13

\* MapUtils.getOptimalZoom
getOptimalZoom(accuracy) ==
    IF accuracy <= 10 THEN 18
    ELSE IF accuracy <= 50 THEN 16
    ELSE IF accuracy <= 100 THEN 15
    ELSE IF accuracy <= 500 THEN 14
    ELSE 13

\* the accuracies getOptimalZoom is called with, in metres: every value up
\* to 60 and the values around the breakpoints 100 and 500
CheckAccuracies == (0..60) \cup {99, 100, 101, 499, 500, 501, 1000}

InitZoom ==
    InitCalling({TRUE}, {FALSE}, {Absent},
                {Calling("getOptimalZoom", <<a>>) : a \in CheckAccuracies})

\* MapUtils.getOptimalZoom(accuracy) runs and returns
CallGetOptimalZoom ==
    /\ call.fn = "getOptimalZoom"
    /\ ~call.done
    /\ call' = [call EXCEPT !.done = TRUE,
                            !.result = getOptimalZoom(call.args[1])]
    /\ lastOp' = "getOptimalZoom"
    /\ UNCHANGED engineVars

NextZoom == CallGetOptimalZoom

SpecZoom == InitZoom /\ [][NextZoom]_vars

\* Math.min and Math.max of two numbers: NaN if either is NaN
MathMin(a, b) == IF isNaN(a) \/ isNaN(b) THEN NaN ELSE IF a <= b THEN a ELSE b

MathMax(a, b) == IF isNaN(a) \/ isNaN(b) THEN NaN ELSE IF a >= b THEN a ELSE b

\* x / 2 for a whole number x, exactly: the whole part (rounded down) and
\* whether one half is to be added
Half(x) == [floor |-> x \div 2, plusHalf |-> x % 2 = 1]

\* the four running extremes after locations.forEach over a suffix
RECURSIVE ForEachExtremes(_, _)
ForEachExtremes(acc, locations) ==
    IF locations = <<>> THEN acc
    ELSE ForEachExtremes(
             [minLat |-> MathMin(acc.minLat, Head(locations).latitude),
              maxLat |-> MathMax(acc.maxLat, Head(locations).latitude),
              minLng |-> MathMin(acc.minLng, Head(locations).longitude),
              maxLng |-> MathMax(acc.maxLng, Head(locations).longitude)],
             Tail(locations))

\* what calculateBounds returns for the extremes it found
BoundsOf(e) ==
    [northEast |-> <<e.maxLat, e.maxLng>>,
     southWest |-> <<e.minLat, e.minLng>>,
     center |-> <<Half(e.minLat + e.maxLat), Half(e.minLng + e.maxLng)>>]

\* calculateBounds with the running extremes started at 0
calculateBounds_FromZero(locations) ==
    IF Len(locations) = 0
    THEN [northEast |-> <<0, 0>>, southWest |-> <<0, 0>>,
          center |-> <<Half(0), Half(0)>>]
    ELSE BoundsOf(ForEachExtremes(
             [minLat |-> 0, maxLat |-> 0, minLng |-> 0, maxLng |-> 0],
             locations))

\* MapUtils.calculateBounds
calculateBounds(locations) ==
    IF Len(locations) = 0
    THEN [northEast |-> <<0, 0>>, southWest |-> <<0, 0>>,
          center |-> <<Half(0), Half(0)>>]
    ELSE BoundsOf(ForEachExtremes(
             [minLat |-> locations[1].latitude,
              maxLat |-> locations[1].latitude,
              minLng |-> locations[1].longitude,
              maxLng |-> locations[1].longitude],
             locations))

\* the points calculateBounds is called with, and how many at most
CheckPoints == {<<0, 0>>, <<10, 10>>, <<37, -122>>, <<-33, 151>>, <<4, -7>>}

MaxBoundsLen == 3

\* the arrays of at most n samples over the points
PointArrays(n) ==
    UNION {[1..k -> {LocationData(0, c) : c \in CheckPoints}] : k \in 0..n}

InitBounds ==
    InitCalling({TRUE}, {FALSE}, {Absent},
                {Calling("calculateBounds", <<locations>>) :
                    locations \in PointArrays(MaxBoundsLen)})

\* MapUtils.calculateBounds(locations) runs and returns
CallCalculateBounds ==
    /\ call.fn = "calculateBounds"
    /\ ~call.done
    /\ call' = [call EXCEPT !.done = TRUE,
                            !.result = calculateBounds(call.args[1])]
    /\ lastOp' = "calculateBounds"
    /\ UNCHANGED engineVars

NextBounds == CallCalculateBounds

SpecBounds == InitBounds /\ [][NextBounds]_vars

\* null, as GeolocationCoordinates reports a field it has no value for
Null == -8888

\* undefined: the field is absent from the LocationData object
Undefined == -7777

\* x || undefined: undefined when x is falsy (null, 0 or NaN), else x
OrUndefined(x) == IF x = Null \/ x = 0 \/ isNaN(x) THEN Undefined ELSE x

\* the optional fields of the LocationData object built from
\* position.coords, in both success callbacks
OptionalFields(coords) ==
    [altitude |-> OrUndefined(coords.altitude),
     heading |-> OrUndefined(coords.heading),
     speed |-> OrUndefined(coords.speed)]

\* what the platform reports in an optional field: nothing, zero, NaN (the
\* heading of a device at rest) or another number
CheckOptional == {Null, 0, NaN, 12, -3}

InitOptional ==
    InitCalling({TRUE}, {FALSE}, {Absent},
                {Calling("locationData",
                         <<[altitude |-> a, heading |-> h, speed |-> s]>>) :
                    a \in CheckOptional, h \in CheckOptional, s \in CheckOptional})

\* a success callback builds the LocationData object from position.coords
CallLocationData ==
    /\ call.fn = "locationData"
    /\ ~call.done
    /\ call' = [call EXCEPT !.done = TRUE,
                            !.result = OptionalFields(call.args[1])]
    /\ lastOp' = "locationData"
    /\ UNCHANGED engineVars

NextOptional == CallLocationData

SpecOptional == InitOptional /\ [][NextOptional]_vars

----------------------------------------------------------------------------
(* A GeolocationService instance called directly *)

\* service.startWatching(onLocationUpdate, onError, options), with the
\* callbacks the hook passes
SvcStartWatching ==
    /\ phase = "mounted"
    /\ Cardinality(liveWatches) < MaxWatches
    /\ SetEng(svcStartWatching(Eng))
    /\ lastOp' = "svcStartWatching"
    /\ UNCHANGED <<lastKnownPosition, inFlight, pendingOnce, pendingPerm, fixes, delivered>>
    /\ Frame

\* service.stopWatching()
SvcStopWatching ==
    /\ phase = "mounted"
    /\ SetEng(svcStopWatching(Eng))
    /\ lastOp' = "svcStopWatching"
    /\ UNCHANGED <<lastKnownPosition, inFlight, pendingOnce, pendingPerm, fixes, delivered>>
    /\ Frame

InitService == InitWith({TRUE}, {FALSE}, {Absent})

NextService ==
    \/ Mount
    \/ SvcStartWatching
    \/ SvcStopWatching
    \/ \E id \in liveWatches, c \in Coords : PositionFix(id, c, MaxFixes)
    \/ WatchDeliver
    \/ DropCancelled

SpecService == InitService /\ [][NextService]_vars

----------------------------------------------------------------------------
(* Properties *)

Refs(seq) == [i \in DOMAIN seq |-> seq[i].ref]

IsValid(l) == isValidCoordinate(l.latitude, l.longitude)

\* the history once the queued updates are applied
CommittedHistory == ApplyQueue(locationHistory, histQueue)

\* C1: the in-memory history never holds more than 100 entries, hydration
\* included, and neither does the slot once the engine has written it.
C1_HistoryWithinCapacity ==
    /\ Len(locationHistory) <= HistoryCap
    /\ notified # <<>> =>
          storage.kind = "array" /\ Len(storage.items) <= HistoryCap

\* C2: starting from an empty history, the history holds exactly the last
\* 100 appended samples, in the order they were appended (the subscriber is
\* called once per append, with the appended sample).
C2_SlidingWindow ==
    phase = "mounted" =>
        Refs(CommittedHistory) = SliceLast(Refs(notified), HistoryCap)

\* C2 witness: more than 100 samples were appended, the oldest were evicted
C2_Witness ==
    /\ phase = "mounted"
    /\ Len(notified) > HistoryCap + 1
    /\ Len(locationHistory) = HistoryCap
    /\ locationHistory[1].ref = Len(notified) - HistoryCap + 1
    /\ locationHistory[1].latitude = locationHistory[2].latitude
    /\ histQueue = <<>>

\* C3: a sample delivered for a watch that was already cancelled does not
\* become the current sample, and the render after it appends nothing.
C3_LateDeliveryDropped ==
    [][/\ lastOp' = "lateDeliver" => st'.location = st.location
       /\ (lastOp = "lateDeliver" /\ lastOp' = "render") => histQueue' = <<>>]_vars

\* C4: a sample with coordinates out of range is never the current sample,
\* never in the history and never in the slot.
C4_InvalidSampleRejected ==
    /\ st.location = NoLocation \/ IsValid(st.location)
    /\ \A i \in DOMAIN locationHistory : IsValid(locationHistory[i])
    /\ \A i \in DOMAIN storage.items : IsValid(storage.items[i])

\* C5: a delivered sample is in the history at most once.
C5_PushedOnce ==
    \A i, j \in DOMAIN locationHistory :
        locationHistory[i].ref = locationHistory[j].ref => i = j

\* C6: once the engine has nothing left to process, the valid samples in the
\* history are the valid samples delivered, in delivery order (the last 100).
C6_EveryDeliveryAppended ==
    (phase = "mounted" /\ ~dirty) =>
        SelectSeq(locationHistory, IsValid)
            = SliceLast(SelectSeq(delivered, IsValid), HistoryCap)

\* C7: whenever the subscriber is called, the history the component holds
\* already ends with the sample it is called with.
C7_AppendBeforeNotify ==
    \A i \in DOMAIN notified : notified[i].inHistory

\* C8: a one-shot request and a watch are never active together.
C8_OneAcquisitionAtATime == ~(isWatching /\ pendingOnce > 0)

\* C9: at most one watch subscription is live, and startWatching called
\* while a watch is active changes nothing.
C9_SingleWatch ==
    /\ [](Cardinality(liveWatches) <= 1)
    /\ [][(isWatching /\ lastOp' = "startWatching") =>
             UNCHANGED <<st, dirty, isWatching, watchId, liveWatches,
                         inFlight, pendingOnce>>]_vars

\* C9 witness: startWatching was called during a watch that had already
\* delivered (a start that opens a watch leaves loading set)
C9_Witness ==
    /\ lastOp = "startWatching"
    /\ isWatching
    /\ ~st.loading
    /\ Cardinality(liveWatches) = 1

\* C10: after a failure delivered during a watch, the subscription stays
\* open until the caller stops it.
C10_FailureKeepsWatch ==
    [][(lastOp = "watchFail" /\ isWatching /\ lastOp' # "stopWatching") =>
          (isWatching' /\ watchId' = watchId /\ watchId \in liveWatches')]_vars

\* C11: stopWatching called during a watch cancels the platform subscription
\* and leaves the engine with no watch, no subscription and loading off;
\* called with no watch it changes nothing; a second call in a row gives the
\* state the first call gave.
C11_StopWatchingIdempotent ==
    /\ [](hookStopWatching(hookStopWatching(Eng)) = hookStopWatching(Eng))
    /\ [][lastOp' = "stopWatching" =>
             IF isWatching
             THEN /\ watchId \in liveWatches
                  /\ liveWatches' = {}
                  /\ watchId' = 0
                  /\ ~isWatching'
                  /\ ~st'.loading
                  /\ UNCHANGED <<inFlight, pendingOnce>>
             ELSE UNCHANGED <<st, dirty, isWatching, watchId, liveWatches,
                              inFlight, pendingOnce>>]_vars

\* C11 witness: stopWatching has run and a callback of the watch it found
\* cancelled is still queued at the platform
C11_Witness ==
    /\ lastOp = "stopWatching"
    /\ ~isWatching
    /\ watchId = 0
    /\ liveWatches = {}
    /\ ~st.loading
    /\ inFlight # <<>>

\* C12: clearError sets the last error to none and changes nothing else:
\* loading flag, watching flag, watch handle, the platform's watches and
\* requests, permission, current sample, history and slot stay as they were.
C12_ClearErrorFrame ==
    [][lastOp' = "clearError" =>
          /\ st' = [st EXCEPT !.error = NoError]
          /\ UNCHANGED <<isWatching, watchId, liveWatches, inFlight,
                         pendingOnce, pendingPerm, lastKnownPosition,
                         locationHistory, histQueue, storage, notified>>]_vars

\* C12 witness: clearError was called during a watch that is still loading,
\* with a current sample and a history
C12_Witness ==
    /\ lastOp = "clearError"
    /\ st.error = NoError
    /\ isWatching
    /\ st.loading
    /\ st.location # NoLocation
    /\ locationHistory # <<>>

\* the last element of a non-empty sequence
Last(seq) == seq[Len(seq)]

\* nothing is left to process: no request is pending and no render is
\* pending, or the component is gone
Settled ==
    /\ phase # "init"
    /\ pendingOnce = 0
    /\ phase = "crashed" \/ ~dirty

\* C13: a getCurrentPosition call made from idle ends idle (not loading, not
\* watching) whether the source resolves or fails; once a valid answer is
\* processed it is the current sample and the history, empty at the start,
\* has grown by one per answered sample.
C13_OneShotCompletes ==
    /\ (phase # "init" /\ pendingOnce = 0) => (~st.loading /\ ~isWatching)
    /\ (Settled /\ delivered # <<>>) =>
          /\ st.location = Last(delivered)
          /\ Len(locationHistory) = Len(delivered)

\* the steps in which the engine's operations run: the calls themselves and
\* the continuations and callbacks the source's answers run
EngineOps ==
    {"getCurrentPosition", "onceResolve", "onceFail", "startWatching",
     "watchDeliver", "lateDeliver", "watchFail", "permissionResult"}

\* C14: no source failure is raised out of getCurrentPosition, startWatching,
\* requestPermission or checkPermission (the component stays mounted), and
\* the failure is the last error afterwards: the code the source reported,
\* or 0 when an operation that needs the source is called on a platform
\* without one.
C14_FailuresStoredNotRaised ==
    [][/\ lastOp' \in EngineOps => phase' = "mounted"
       /\ lastOp' \in {"onceFail", "watchFail"} => st'.error \in ErrorCodes
       /\ (lastOp' \in {"getCurrentPosition", "startWatching"} /\ ~isSupported)
             => st'.error = 0]_vars

\* C15: the render that processes a valid current sample appends it to the
\* history and calls the subscriber with it, raises nothing and records no
\* error, whether or not the slot can be parsed and written.
C15_PersistenceNeverBlocks ==
    [][(/\ lastOp' = "render"
        /\ AppendDepsChanged
        /\ st.location # NoLocation
        /\ IsValid(st.location)) =>
           /\ phase' = "mounted"
           /\ CommittedHistory' # <<>>
           /\ Last(CommittedHistory').ref = st.location.ref
           /\ Len(notified') = Len(notified) + 1
           /\ Last(notified').ref = st.location.ref
           /\ st'.error \in {st.error, NoError}]_vars

\* C16: at session start a slot whose text does not parse is discarded: the
\* component mounts, the history is empty, no error is recorded and the
\* slot is left as it was.
C16_MalformedSlotDiscarded ==
    /\ [][(lastOp' = "mount" /\ storage.kind = "malformed") =>
              /\ phase' = "mounted"
              /\ CommittedHistory' = <<>>
              /\ st'.error = NoError
              /\ storage' = storage]_vars
    /\ [](storage.kind = "malformed" => locationHistory = <<>>)

\* C16 witness: the session started on a slot that does not parse and its
\* first request was made
C16_Witness ==
    /\ storage = Malformed
    /\ phase = "mounted"
    /\ lastOp = "getCurrentPosition"
    /\ locationHistory = <<>>
    /\ histQueue = <<>>

\* what the samples of a sequence hold, their identity left out
Values(seq) ==
    [i \in DOMAIN seq |->
        [timestamp |-> seq[i].timestamp, latitude |-> seq[i].latitude,
         longitude |-> seq[i].longitude]]

\* the history a new session holds after its hydrate effect and first render
Hydrated(slot) == ApplyQueue(<<>>, HydrateQueue(slot))

\* C17: once the last append is processed and the history holds at most 100
\* samples, a new session hydrating from the slot gets the same samples in
\* the same order.
C17_RoundTrip ==
    (/\ phase = "mounted"
     /\ ~dirty
     /\ histQueue = <<>>
     /\ notified # <<>>
     /\ Len(locationHistory) <= HistoryCap) =>
        Values(Hydrated(storage)) = Values(locationHistory)

\* the engine holds the last answered sample as the current sample and as
\* the newest entry of the history, with no error, not loading, not watching
Recovered ==
    /\ phase = "mounted"
    /\ st.error = NoError
    /\ ~st.loading
    /\ ~isWatching
    /\ delivered # <<>>
    /\ st.location = Last(delivered)
    /\ locationHistory # <<>>
    /\ Last(locationHistory).ref = st.location.ref

\* C18: after clearError and getCurrentPosition called with an error
\* recorded, the engine gets to a state with no error, idle, the answered
\* sample current and appended to the history - unless the source answers
\* with a failure, which is recorded.
C18_UsableAfterError ==
    (lastOp = "retry" /\ isSupported) ~> (Recovered \/ st.error # NoError)

\* C19: with the permission state at 'prompt' (the value checkPermission
\* gives when the status cannot be queried), a position request that
\* succeeds leaves the permission state 'granted', and one that fails with
\* permission-denied (code 1) leaves it 'denied'.
C19_PermissionFollowsRequests ==
    [][/\ (st.permission = "prompt" /\ lastOp' = "onceResolve")
             => st'.permission = "granted"
       /\ (st.permission = "prompt" /\ lastOp' = "onceFail" /\ st'.error = 1)
             => st'.permission = "denied"]_vars

\* C20: isValidCoordinate(lat, lng) returns true exactly when neither
\* argument is NaN, lat is within [-90, 90] and lng within [-180, 180]; the
\* four boundary values are accepted, and a value one degree outside a
\* boundary is rejected.
C20_ValidateCoordinate ==
    (call.fn = "isValidCoordinate" /\ call.done) =>
        LET lat == call.args[1]
            lng == call.args[2]
        IN  /\ call.result <=> (/\ lat # NaN
                                 /\ lng # NaN
                                 /\ lat \in -90..90
                                 /\ lng \in -180..180)
            /\ (lat \in {-90, 90} /\ lng \in {-180, 180}) => call.result
            /\ (lat \in {-91, 91} \/ lng \in {-181, 181}) => ~call.result

\* C20 witness: the call with latitude 90 and longitude -180 has returned
\* true
C20_Witness ==
    /\ call.fn = "isValidCoordinate"
    /\ call.done
    /\ call.args = <<90, -180>>
    /\ call.result

\* C21: getOptimalZoom returns 18 up to 10 metres, 16 above 10 up to 50, 15
\* above 50 up to 100, 14 above 100 up to 500 and 13 above 500; a larger
\* accuracy value never gives a larger zoom.
C21_OptimalZoomSteps ==
    (call.fn = "getOptimalZoom" /\ call.done) =>
        LET a == call.args[1]
            zoom == call.result
        IN  /\ a <= 10 <=> zoom = 18
            /\ (10 < a /\ a <= 50) <=> zoom = 16
            /\ (50 < a /\ a <= 100) <=> zoom = 15
            /\ (100 < a /\ a <= 500) <=> zoom = 14
            /\ a > 500 <=> zoom = 13
            /\ \A b \in CheckAccuracies :
                  /\ a <= b => zoom >= getOptimalZoom(b)
                  /\ b <= a => getOptimalZoom(b) >= zoom

\* C21 witness: the call at the breakpoint 10 has returned 18
C21_Witness ==
    /\ call.fn = "getOptimalZoom"
    /\ call.done
    /\ call.args = <<10>>
    /\ call.result = 18

\* a whole number as the value of a division by two
Whole(x) == [floor |-> x, plusHalf |-> FALSE]

\* m is the largest (smallest) of the numbers in the set
IsMax(m, set) == m \in set /\ \A x \in set : x <= m

IsMin(m, set) == m \in set /\ \A x \in set : m <= x

\* C22: for a non-empty array calculateBounds returns the largest latitude
\* and longitude as northEast, the smallest as southWest and the midpoint
\* of smallest and largest on each axis as center; one sample p gives p
\* three times, [(0,0), (10,10)] gives center (5,5); the empty array gives
\* the all-zero box.
C22_BoundingBox ==
    (call.fn = "calculateBounds" /\ call.done) =>
        LET locations == call.args[1]
            box == call.result
            lats == {locations[i].latitude : i \in DOMAIN locations}
            lngs == {locations[i].longitude : i \in DOMAIN locations}
        IN  /\ locations = <<>> =>
                  box = [northEast |-> <<0, 0>>, southWest |-> <<0, 0>>,
                         center |-> <<Whole(0), Whole(0)>>]
            /\ locations # <<>> =>
                  /\ IsMax(box.northEast[1], lats)
                  /\ IsMax(box.northEast[2], lngs)
                  /\ IsMin(box.southWest[1], lats)
                  /\ IsMin(box.southWest[2], lngs)
                  /\ box.center[1] = Half(box.southWest[1] + box.northEast[1])
                  /\ box.center[2] = Half(box.southWest[2] + box.northEast[2])
            /\ Len(locations) = 1 =>
                  LET p == <<locations[1].latitude, locations[1].longitude>>
                  IN  /\ box.northEast = p
                      /\ box.southWest = p
                      /\ box.center = <<Whole(p[1]), Whole(p[2])>>
            /\ (lats = {0, 10} /\ lngs = {0, 10}) =>
                  box.center = <<Whole(5), Whole(5)>>

\* C22 witness: the call with [(0,0), (10,10)] has returned center (5,5)
C22_Witness ==
    /\ call.fn = "calculateBounds"
    /\ call.done
    /\ Len(call.args[1]) = 2
    /\ call.args[1][1].latitude = 0
    /\ call.args[1][2].longitude = 10
    /\ call.result.center = <<Whole(5), Whole(5)>>
    /\ call.result.northEast = <<10, 10>>

\* C23: in the sample built from a raw reading, each of altitude, heading
\* and speed is absent exactly when the source reported no value for it, and
\* a reported 0 is present with value 0.
C23_OptionalFieldsKept ==
    (call.fn = "locationData" /\ call.done) =>
        \A f \in {"altitude", "heading", "speed"} :
            /\ call.result[f] = Undefined <=> call.args[1][f] = Null
            /\ call.args[1][f] = 0 => call.result[f] = 0

\* C24: a failure answered to a one-shot request is recorded with the code
\* the source reported (3 for a timeout) and ends the request; the engine
\* issues no one-shot request of its own - only a getCurrentPosition call
\* adds one - and, without auto-start, opens no watch of its own.
C24_TimeoutRecordedNoRetry ==
    [][/\ lastOp' = "onceFail" =>
             /\ st'.error \in ErrorCodes
             /\ ~st'.loading
             /\ pendingOnce' = pendingOnce - 1
       /\ lastOp' # "getCurrentPosition" => pendingOnce' <= pendingOnce
       /\ (~autoStart /\ lastOp' # "startWatching") =>
             liveWatches' \subseteq liveWatches]_vars

\* C24 witness: a one-shot request has just timed out and nothing is pending
\* or registered at the source
C24_Witness ==
    /\ lastOp = "onceFail"
    /\ st.error = 3
    /\ ~st.loading
    /\ pendingOnce = 0
    /\ liveWatches = {}
    /\ inFlight = <<>>

\* C25: when the service's stopWatching returns, no watch the instance
\* registered at the platform is left uncancelled.
C25_StopCancelsEveryWatch ==
    [][lastOp' = "svcStopWatching" => liveWatches' = {}]_vars

\* C26: while the component is mounted, isWatching.current is true exactly
\* when the service instance holds a watch id, and that id is then the one
\* watch registered at the platform.
C26_FlagMatchesHandle ==
    phase = "mounted" =>
        /\ isWatching <=> watchId # 0
        /\ isWatching => liveWatches = {watchId}
        /\ ~isWatching => liveWatches = {}

\* C26 witness: the auto-start effect has closed and reopened the watch in a
\* render, and the flag and the handle are both set
C26_Witness ==
    /\ phase = "mounted"
    /\ lastOp = "render"
    /\ autoStart
    /\ isWatching
    /\ watchId # 0
    /\ notified # <<>>

\* C27: with geolocation supported, auto-start on and permission granted,
\* a render leaves a watch open, and a render that finds the watch open
\* leaves it as it is: the same subscription, not cancelled and not
\* reopened.
C27_AutoStartStable ==
    [][(isSupported /\ autoStart /\ st.permission = "granted"
            /\ lastOp' = "render" /\ phase' = "mounted") =>
          /\ isWatching'
          /\ isWatching =>
                /\ watchId' = watchId
                /\ st'.loading = st.loading]_vars

\* C28: while a one-shot request is pending at the source, the loading flag
\* is true.
C28_LoadingWhilePending ==
    (phase = "mounted" /\ pendingOnce > 0) => st.loading

\* C29: in a session that found the slot absent or as an earlier session of
\* the engine left it, once an append is processed (its history update
\* rendered, nothing queued) the slot holds the same samples as the
\* in-memory history, in the same order.
C29_SlotMatchesHistory ==
    (/\ phase = "mounted"
     /\ ~dirty
     /\ histQueue = <<>>
     /\ notified # <<>>) =>
        /\ storage.kind = "array"
        /\ Values(storage.items) = Values(locationHistory)

\* GeolocationService.getLastKnownPosition(), reached through the hook
getLastKnownPosition == lastKnownPosition

\* C30: a current sample that is not null is the sample
\* getLastKnownPosition() returns.
C30_LastKnownIsCurrent ==
    st.location # NoLocation => getLastKnownPosition = st.location

====
